---- MODULE Spec2Model ----
(***************************************************************************)
(* Model of the MPI engine of DosNa (dosna/engines/mpi.py): MpiCluster,    *)
(* MpiPool and MpiDataset run by mpi_size processes that execute the same   *)
(* program (SPMD) over one shared storage backend and synchronise only      *)
(* through mpi_barrier and bcast.                                          *)
(*                                                                         *)
(* The backend is a shared one ("hdf5" or "ceph"); the process-local        *)
(* "memory" backend is the one mpi.py:42-43 warns about and is not part of  *)
(* the model.                                                              *)
(***************************************************************************)
EXTENDS Integers, Sequences, FiniteSets, TLC

\* ---------------------------------------------------------------- bounds
MaxProcs == 2
MaxShape == 5
MaxOps == 2

\* ------------------------------------------------------- program inputs
POOL == "test_dosna"
DsNames == {"ds", "out"}
Backends == {"hdf5", "ceph"}
Funcs == {"identity", "incr"}
NoData == -1
NoIdx == -1
\* the dtype, chunk size and fillvalue the program creates its datasets with, and the
\* backend's defaults for a create_dataset that does not pass them
DsDtype == "int32"
DsChunks == 2
DsFill == 7
DefaultDtype == "float32"
DefaultFill == 0
\* keyword arguments (as sets of keys) of the cluster and of create_pool
ClusterKwargs == {"conffile"}
PoolKwargs == {}

VARIABLES
  mpi_size,   \* MpiMixin.mpi_size: number of processes of the communicator
  bname,      \* backend.name of the cluster
  dsargs,     \* shape/dtype/chunks/fillvalue the program creates "ds" with
  pools,      \* backend: names of the pools that exist
  datasets,   \* backend: dataset name -> metadata and stored chunks
  instance,   \* per process: the backend cluster handle (self.instance)
  hp,         \* per process: pool name -> MpiPool the program holds
  dsh,        \* per process: dataset name -> MpiDataset the program holds
  script,     \* the collective calls of the program issued so far
  opidx,      \* per process: index in script of its current / next call
  pc,         \* per process: position inside the current call
  nbar,       \* per process: number of mpi_barrier calls entered
  nbc,        \* per process: number of bcast calls completed
  bcastq,     \* values root has broadcast, in order
  it,         \* per process: rest of the range(...) iterator of its loop
  tmp,        \* per process: local `data` between chunk read and write
  out,        \* per process: local `out` of map / clone
  err,        \* per process: exception raised ("" = none)
  mutlog,     \* history: backend create/delete calls, with their count
  io,         \* history: chunk reads/writes/deletes, with their count
  before,     \* history: backend datasets when call k was first issued
  obs,        \* per process: the results of its has_dataset calls, in order
  got,        \* the latest get_pool / get_dataset / get_chunk call and its result
  part        \* shards computed per rank for a chunk count (SpecPart only)

vars == <<mpi_size, bname, dsargs, pools, datasets, instance, hp, dsh, script,
          opidx, pc, nbar, nbc, bcastq, it, tmp, out, err, mutlog, io, before,
          obs, got, part>>

Procs == 0 .. (mpi_size - 1)

\* mpi.py:22  self.mpi_is_root = self.mpi_rank == 0
mpi_is_root_all(p) == TRUE
mpi_is_root(p) == p = 0

\* mpi.py:36  self.ceph_backend = (backend.name == 'ceph')
ceph_backend_always == TRUE
ceph_backend == bname = "ceph"

\* ------------------------------------------------------------- helpers
BagAdd(b, e) == IF e \in DOMAIN b THEN [b EXCEPT ![e] = @ + 1] ELSE b @@ (e :> 1)
BagCount(b, e) == IF e \in DOMAIN b THEN b[e] ELSE 0
EmptyFn == [x \in {} |-> 0]
Remove(f, x) == [y \in (DOMAIN f) \ {x} |-> f[y]]
Put(f, x, v) == [y \in (DOMAIN f) \cup {x} |-> IF y = x THEN v ELSE f[y]]
SeqToSet(s) == {s[i] : i \in 1 .. Len(s)}

\* builtins.range(start, stop, step) with step > 0, as the list it iterates
RECURSIVE PyRange(_, _, _)
PyRange(start, stop, step) ==
  IF start >= stop THEN <<>> ELSE <<start>> \o PyRange(start + step, stop, step)

\* range(self.mpi_rank, self.total_chunks, self.mpi_size): mpi.py:128,142,152,160
Shard_norank(rank, total_chunks, size) == PyRange(0, total_chunks, size)
Shard_nostep(rank, total_chunks, size) == PyRange(rank, total_chunks, 1)
Shard_skip(rank, total_chunks, size) == PyRange(rank + size, total_chunks, size)
Shard(rank, total_chunks, size) == PyRange(rank, total_chunks, size)

\* ------------------------------------------------ backend collaborators
\* number of chunks of a 1-d dataset: ceil(shape / chunk_size)
TotalChunks(shape, chunk_size) == (shape + chunk_size - 1) \div chunk_size

\* a chunk is a sequence of chunk_size elements
FillChunk(chunk_size, fillvalue) == [j \in 1 .. chunk_size |-> fillvalue]

\* CpuDataset._global_chunk_bounds / _local_chunk_bounds of flat ordinal idx,
\* as the 0-based half-open interval <<lo, hi>>
Min(a, b) == IF a < b THEN a ELSE b
GlobalChunkBounds(h, idx) ==
  <<idx * h.chunk_size, Min((idx + 1) * h.chunk_size, h.shape)>>
LocalChunkBounds(h, idx) ==
  <<0, Min((idx + 1) * h.chunk_size, h.shape) - idx * h.chunk_size>>

\* the array a program loads: n sequential integers 0 .. n-1 (index 1-based)
Data(n) == [g \in 1 .. n |-> g - 1]
\* data[gslices]
Slice(data, b) == [j \in 1 .. (b[2] - b[1]) |-> data[b[1] + j]]

\* the transformation functions a program passes to map / apply
F(func, chunk) ==
  IF func = "incr" THEN [j \in DOMAIN chunk |-> chunk[j] + 1] ELSE chunk

\* backend handle of a dataset: its static attributes
Handle(name, d) ==
  [name |-> name, shape |-> d.shape, dtype |-> d.dtype,
   chunk_size |-> d.chunk_size, fillvalue |-> d.fillvalue,
   total_chunks |-> d.total_chunks]

\* backend pool.create_dataset(name, shape, dtype, chunks, fillvalue)
NewDataset(shape, dtype, chunks, fillvalue) ==
  [shape |-> shape, dtype |-> dtype, chunk_size |-> chunks,
   fillvalue |-> fillvalue, total_chunks |-> TotalChunks(shape, chunks),
   chunks |-> EmptyFn]

\* contents of chunk idx of a stored dataset d (a chunk never written reads
\* as the fill value)
ChunkData(d, idx) ==
  IF idx \in DOMAIN d.chunks THEN d.chunks[idx]
  ELSE FillChunk(d.chunk_size, d.fillvalue)

\* chunk[lslices] = values
WriteRegion(chunk, b, values) ==
  [j \in DOMAIN chunk |-> IF j > b[1] /\ j <= b[2] THEN values[j - b[1]] ELSE chunk[j]]

\* backend cluster.has_pool(name) through the handle of process p: a ceph
\* session sees the pools that existed when it connected (mpi.py:51,71)
has_pool(p, name) ==
  IF ceph_backend THEN name \in instance[p].view ELSE name \in pools
\* backend pool.has_dataset(name)
has_dataset(p, name) == name \in DOMAIN datasets

\* ------------------------------------------------------- the program
MkOp(op, name, data, func, outn, idx) ==
  [op |-> op, name |-> name, data |-> data, func |-> func, out |-> outn, idx |-> idx]

\* the collective calls process p's program may issue next: cluster calls
\* always, pool calls with a pool handle, dataset calls with a dataset handle
OpsFor(p) ==
  {MkOp(c, POOL, NoData, "", "", NoIdx) : c \in {"create_pool", "del_pool"}}
  \cup (IF POOL \in DOMAIN hp[p]
        THEN {MkOp("create_dataset", "ds", d, "", "", NoIdx) : d \in {NoData, dsargs.shape}}
             \cup {MkOp("del_dataset", "ds", NoData, "", "", NoIdx)}
        ELSE {})
  \cup (IF "ds" \in DOMAIN dsh[p]
        THEN {MkOp(c, "ds", NoData, "", "", NoIdx) : c \in {"clear", "delete"}}
             \cup {MkOp("create_chunk", "ds", NoData, "", "", i) :
                     i \in {0, dsh[p]["ds"].total_chunks - 1}}
             \cup {MkOp("load", "ds", d, "", "", NoIdx) :
                     d \in {dsargs.shape, dsargs.shape + 1}}
             \cup {MkOp("apply", "ds", NoData, f, "", NoIdx) : f \in Funcs}
             \cup {MkOp("map", "ds", NoData, f, "out", NoIdx) : f \in Funcs}
             \cup {MkOp("clone", "ds", NoData, "", "out", NoIdx)}
        ELSE {})

\* the call process p issues when it is between calls: the next call of the
\* program if another process already issued it, any call otherwise
CurOps(p) ==
  IF opidx[p] <= Len(script) THEN {script[opidx[p]]}
  ELSE IF Len(script) < MaxOps THEN OpsFor(p) ELSE {}

\* p enters call o (all processes run the same program)
Issue(p, o) ==
  /\ pc[p] = "idle"
  /\ o \in CurOps(p)
  /\ script' = IF opidx[p] > Len(script) THEN Append(script, o) ELSE script
  /\ before' = IF opidx[p] > Len(script) THEN Append(before, datasets) ELSE before

Cur(p) == script[opidx[p]]
Self(p) == dsh[p][Cur(p).name]

\* mpi.py:24-25  mpi_barrier: Barrier() returns once all processes entered it
BarrierOpen_nowait(p) == TRUE
BarrierOpen(p) == \A q \in Procs : nbar[q] >= nbar[p]

\* mpi.py:174  bcast(out, root=0) on a non-root process: root's value arrived
BcastReady_never(p) == FALSE
BcastReady(p) == Len(bcastq) > nbc[p]

\* the processes after MpiCluster.__init__ and connect, holding the handles
\* of what exists already; the processes of callers are about to run the
\* calls of prog (and any call after), the others never call the engine
InitRun(prog, callers) ==
  /\ instance = [p \in Procs |-> [gen |-> 0, view |-> pools]]
  /\ hp = [p \in Procs |-> [n \in pools |-> [name |-> n, kwargs |-> PoolKwargs]]]
  /\ dsh = [p \in Procs |-> [n \in DOMAIN datasets |-> Handle(n, datasets[n])]]
  /\ script = prog
  /\ opidx = [p \in Procs |-> 1]
  /\ pc = [p \in Procs |-> IF p \in callers THEN "idle" ELSE "absent"]
  /\ nbar = [p \in Procs |-> 0]
  /\ nbc = [p \in Procs |-> 0]
  /\ bcastq = <<>>
  /\ it = [p \in Procs |-> <<>>]
  /\ tmp = [p \in Procs |-> <<>>]
  /\ out = [p \in Procs |-> <<>>]
  /\ err = [p \in Procs |-> ""]
  /\ mutlog = EmptyFn
  /\ io = EmptyFn
  /\ before = [k \in DOMAIN prog |-> datasets]
  /\ obs = [p \in Procs |-> <<>>]
  /\ got = [rank |-> 0, call |-> "", res |-> ""]

InitProcesses == InitRun(<<>>, Procs)

Init ==
  /\ mpi_size \in 1 .. MaxProcs
  /\ bname \in Backends
  /\ dsargs \in {[shape |-> s, chunks |-> DsChunks, dtype |-> DsDtype,
                   fillvalue |-> DsFill] : s \in 1 .. MaxShape}
  /\ pools \in {{}, {POOL}}
  /\ datasets \in IF pools = {} THEN {EmptyFn}
                  ELSE {EmptyFn,
                        "ds" :> NewDataset(dsargs.shape, dsargs.dtype, dsargs.chunks,
                                           dsargs.fillvalue)}
  /\ part = [total |-> 0, shard |-> EmptyFn]
  /\ InitProcesses

cfgv == <<mpi_size, bname, dsargs, part, obs, got>>
loopv == <<it, tmp, out>>
bcastv == <<nbc, bcastq>>

MutRec(p, call, name) == [op |-> opidx[p], rank |-> p, call |-> call, name |-> name]
IoRec(p, ds, ord, kind) == [op |-> opidx[p], rank |-> p, ds |-> ds, ord |-> ord, kind |-> kind]

\* mpi.py:52-55  disconnect, backend.Cluster(name, **kwargs), connect
Reconnect_stale(inst) == inst
Reconnect(inst) == [gen |-> inst.gen + 1, view |-> pools]

\* mpi.py:60-62  get_pool(*args, **kwargs): the MpiPool of a visible pool
get_pool(name, kwargs) == [name |-> name, kwargs |-> kwargs]

\* ---------------------------------------------- MpiCluster.create_pool
\* mpi.py:46-48  root creates the pool; everyone enters the barrier
create_pool_call(p) ==
  /\ p \in Procs
  /\ \E o \in CurOps(p) :
       /\ o.op = "create_pool"
       /\ Issue(p, o)
       /\ LET fail == mpi_is_root(p) /\ o.name \in pools IN
          /\ pools' = IF mpi_is_root(p) /\ ~fail THEN pools \cup {o.name} ELSE pools
          /\ mutlog' = IF mpi_is_root(p) THEN BagAdd(mutlog, MutRec(p, "create_pool", o.name))
                       ELSE mutlog
          /\ pc' = [pc EXCEPT ![p] = IF fail THEN "raised" ELSE "cp_b1"]
          /\ err' = [err EXCEPT ![p] = IF fail THEN "PoolConflict" ELSE @]
          /\ nbar' = [nbar EXCEPT ![p] = IF fail THEN @ ELSE @ + 1]
       /\ UNCHANGED <<cfgv, datasets, instance, hp, dsh, opidx, loopv, bcastv, io>>

\* mpi.py:58 after 48 with ceph_backend false: fetch the pool and return
\* mpi.py:50-56 with ceph_backend: reconnect and enter the second barrier
create_pool_b1(p) ==
  /\ p \in Procs
  /\ pc[p] = "cp_b1"
  /\ BarrierOpen(p)
  /\ IF ceph_backend
     THEN /\ instance' = [instance EXCEPT ![p] = Reconnect(@)]
          /\ nbar' = [nbar EXCEPT ![p] = @ + 1]
          /\ pc' = [pc EXCEPT ![p] = "cp_b2"]
          /\ UNCHANGED <<hp, opidx, err>>
     ELSE /\ IF has_pool(p, Cur(p).name)
             THEN /\ hp' = [hp EXCEPT ![p] = Put(@, Cur(p).name, get_pool(Cur(p).name, PoolKwargs))]
                  /\ pc' = [pc EXCEPT ![p] = "idle"]
                  /\ opidx' = [opidx EXCEPT ![p] = @ + 1]
                  /\ err' = err
             ELSE /\ pc' = [pc EXCEPT ![p] = "raised"]
                  /\ err' = [err EXCEPT ![p] = "PoolNotFound"]
                  /\ UNCHANGED <<hp, opidx>>
          /\ UNCHANGED <<instance, nbar>>
  /\ UNCHANGED <<cfgv, pools, datasets, dsh, script, loopv, bcastv, mutlog, io, before>>

\* mpi.py:56-58  second barrier passed: fetch the pool with the kwargs that
\* line 53 rebound to the cluster's
create_pool_b2(p) ==
  /\ p \in Procs
  /\ pc[p] = "cp_b2"
  /\ BarrierOpen(p)
  /\ IF has_pool(p, Cur(p).name)
     THEN /\ hp' = [hp EXCEPT ![p] = Put(@, Cur(p).name, get_pool(Cur(p).name, ClusterKwargs))]
          /\ pc' = [pc EXCEPT ![p] = "idle"]
          /\ opidx' = [opidx EXCEPT ![p] = @ + 1]
          /\ err' = err
     ELSE /\ pc' = [pc EXCEPT ![p] = "raised"]
          /\ err' = [err EXCEPT ![p] = "PoolNotFound"]
          /\ UNCHANGED <<hp, opidx>>
  /\ UNCHANGED <<cfgv, pools, datasets, instance, dsh, script, nbar, loopv, bcastv,
                 mutlog, io, before>>

\* ------------------------------------------------- MpiCluster.del_pool
\* mpi.py:65  leading barrier
del_pool_call(p) ==
  /\ p \in Procs
  /\ \E o \in CurOps(p) :
       /\ o.op = "del_pool"
       /\ Issue(p, o)
       /\ nbar' = [nbar EXCEPT ![p] = @ + 1]
       /\ pc' = [pc EXCEPT ![p] = "dp_b1"]
       /\ UNCHANGED <<cfgv, pools, datasets, instance, hp, dsh, opidx, loopv, bcastv,
                      err, mutlog, io>>

\* mpi.py:66-68  root deletes the pool (and the datasets in it); barrier
del_pool_b1(p) ==
  /\ p \in Procs
  /\ pc[p] = "dp_b1"
  /\ BarrierOpen(p)
  /\ LET name == Cur(p).name
         fail == mpi_is_root(p) /\ name \notin pools IN
     /\ pools' = IF mpi_is_root(p) /\ ~fail THEN pools \ {name} ELSE pools
     /\ datasets' = IF mpi_is_root(p) /\ ~fail THEN EmptyFn ELSE datasets
     /\ mutlog' = IF mpi_is_root(p) THEN BagAdd(mutlog, MutRec(p, "del_pool", name))
                  ELSE mutlog
     /\ pc' = [pc EXCEPT ![p] = IF fail THEN "raised" ELSE "dp_b2"]
     /\ err' = [err EXCEPT ![p] = IF fail THEN "PoolNotFound" ELSE @]
     /\ nbar' = [nbar EXCEPT ![p] = IF fail THEN @ ELSE @ + 1]
  /\ UNCHANGED <<cfgv, instance, hp, dsh, script, opidx, loopv, bcastv, io, before>>

\* mpi.py:70-76  reconnect and third barrier with ceph_backend, else return;
\* the program drops its handles of the deleted pool
del_pool_b2(p) ==
  /\ p \in Procs
  /\ pc[p] = "dp_b2"
  /\ BarrierOpen(p)
  /\ IF ceph_backend
     THEN /\ instance' = [instance EXCEPT ![p] = Reconnect(@)]
          /\ nbar' = [nbar EXCEPT ![p] = @ + 1]
          /\ pc' = [pc EXCEPT ![p] = "dp_b3"]
          /\ UNCHANGED <<hp, dsh, opidx>>
     ELSE /\ hp' = [hp EXCEPT ![p] = Remove(@, Cur(p).name)]
          /\ dsh' = [dsh EXCEPT ![p] = EmptyFn]
          /\ pc' = [pc EXCEPT ![p] = "idle"]
          /\ opidx' = [opidx EXCEPT ![p] = @ + 1]
          /\ UNCHANGED <<instance, nbar>>
  /\ UNCHANGED <<cfgv, pools, datasets, script, loopv, bcastv, err, mutlog, io, before>>

\* mpi.py:76  third barrier passed
del_pool_b3(p) ==
  /\ p \in Procs
  /\ pc[p] = "dp_b3"
  /\ BarrierOpen(p)
  /\ hp' = [hp EXCEPT ![p] = Remove(@, Cur(p).name)]
  /\ dsh' = [dsh EXCEPT ![p] = EmptyFn]
  /\ pc' = [pc EXCEPT ![p] = "idle"]
  /\ opidx' = [opidx EXCEPT ![p] = @ + 1]
  /\ UNCHANGED <<cfgv, pools, datasets, instance, script, nbar, loopv, bcastv, err,
                 mutlog, io, before>>

\* mpi.py:140  data.shape != self.shape
ShapeMismatch_never(shape, h) == FALSE
ShapeMismatch(shape, h) == shape # h.shape

\* mpi.py:145,147  data[gslices], the values load writes to chunk idx
LoadValues_local(data, h, idx) == Slice(data, LocalChunkBounds(h, idx))
LoadValues(data, h, idx) == Slice(data, GlobalChunkBounds(h, idx))

\* mpi.py:155  the dataset map writes to: its local `out`
MapOut_self(p) == Self(p)
MapOut(p) == out[p][1]

\* the iterator a process starts its loop over the chunks of h with
StartLoop(p, h) == Shard(p, h.total_chunks, mpi_size)

\* A process whose loop has no ordinal left goes on to the trailing
\* mpi_barrier() of its call at once: these give its position and its
\* barrier count after a loop step that leaves `rest` to iterate.
AfterLoop(rest, loop, bar) == IF rest = <<>> THEN bar ELSE loop
NbarAfter(rest, n) == IF rest = <<>> THEN n + 1 ELSE n

\* ------------------------------------------------ MpiPool.create_dataset
\* mpi.py:89-91  root creates the dataset (its shape is the data's when data
\* is given); everyone enters the barrier
create_dataset_call(p) ==
  /\ p \in Procs
  /\ \E o \in CurOps(p) :
       /\ o.op = "create_dataset"
       /\ Issue(p, o)
       /\ LET fail == mpi_is_root(p) /\ o.name \in DOMAIN datasets IN
          /\ datasets' = IF mpi_is_root(p) /\ ~fail
                         THEN Put(datasets, o.name,
                                  NewDataset(dsargs.shape, dsargs.dtype, dsargs.chunks,
                                             dsargs.fillvalue))
                         ELSE datasets
          /\ mutlog' = IF mpi_is_root(p)
                       THEN BagAdd(mutlog, MutRec(p, "create_dataset", o.name))
                       ELSE mutlog
          /\ pc' = [pc EXCEPT ![p] = IF fail THEN "raised" ELSE "cd_b1"]
          /\ err' = [err EXCEPT ![p] = IF fail THEN "DatasetConflict" ELSE @]
          /\ nbar' = [nbar EXCEPT ![p] = IF fail THEN @ ELSE @ + 1]
       /\ UNCHANGED <<cfgv, pools, instance, hp, dsh, opidx, loopv, bcastv, io>>

\* mpi.py:92-95  fetch the dataset; with data, run load on it (140-141: the
\* shape check, then the loop); without, return it
create_dataset_b1(p) ==
  /\ p \in Procs
  /\ pc[p] = "cd_b1"
  /\ BarrierOpen(p)
  /\ LET o == Cur(p)
         found == has_dataset(p, o.name)
         ds == Handle(o.name, datasets[o.name])
         mismatch == found /\ o.data # NoData /\ ShapeMismatch(o.data, ds)
         fail == ~found \/ mismatch
         loads == ~fail /\ o.data # NoData
         rest == StartLoop(p, ds) IN
     /\ pc' = [pc EXCEPT ![p] = IF fail THEN "raised"
                                ELSE IF loads THEN AfterLoop(rest, "ld_loop", "ld_b")
                                ELSE "idle"]
     /\ err' = [err EXCEPT ![p] = IF ~found THEN "DatasetNotFound"
                                  ELSE IF mismatch THEN "Data shape does not match"
                                  ELSE @]
     /\ dsh' = IF fail THEN dsh ELSE [dsh EXCEPT ![p] = Put(@, o.name, ds)]
     /\ it' = IF loads THEN [it EXCEPT ![p] = rest] ELSE it
     /\ nbar' = IF loads THEN [nbar EXCEPT ![p] = NbarAfter(rest, @)] ELSE nbar
     /\ opidx' = IF ~fail /\ o.data = NoData THEN [opidx EXCEPT ![p] = @ + 1] ELSE opidx
  /\ UNCHANGED <<cfgv, pools, datasets, instance, hp, script, tmp, out, bcastv,
                 mutlog, io, before>>

\* --------------------------------------------------- MpiPool.del_dataset
\* mpi.py:102  leading barrier
del_dataset_call(p) ==
  /\ p \in Procs
  /\ \E o \in CurOps(p) :
       /\ o.op = "del_dataset"
       /\ Issue(p, o)
       /\ nbar' = [nbar EXCEPT ![p] = @ + 1]
       /\ pc' = [pc EXCEPT ![p] = "dd_b1"]
       /\ UNCHANGED <<cfgv, pools, datasets, instance, hp, dsh, opidx, loopv, bcastv,
                      err, mutlog, io>>

\* mpi.py:103-105  root deletes the dataset; barrier
del_dataset_b1(p) ==
  /\ p \in Procs
  /\ pc[p] = "dd_b1"
  /\ BarrierOpen(p)
  /\ LET name == Cur(p).name
         fail == mpi_is_root(p) /\ name \notin DOMAIN datasets IN
     /\ datasets' = IF mpi_is_root(p) /\ ~fail THEN Remove(datasets, name) ELSE datasets
     /\ mutlog' = IF mpi_is_root(p) THEN BagAdd(mutlog, MutRec(p, "del_dataset", name))
                  ELSE mutlog
     /\ pc' = [pc EXCEPT ![p] = IF fail THEN "raised" ELSE "dd_b2"]
     /\ err' = [err EXCEPT ![p] = IF fail THEN "DatasetNotFound" ELSE @]
     /\ nbar' = [nbar EXCEPT ![p] = IF fail THEN @ ELSE @ + 1]
  /\ UNCHANGED <<cfgv, pools, instance, hp, dsh, script, opidx, loopv, bcastv, io, before>>

\* mpi.py:105  trailing barrier passed; the program drops its dataset handle
del_dataset_b2(p) ==
  /\ p \in Procs
  /\ pc[p] = "dd_b2"
  /\ BarrierOpen(p)
  /\ dsh' = [dsh EXCEPT ![p] = Remove(@, Cur(p).name)]
  /\ pc' = [pc EXCEPT ![p] = "idle"]
  /\ opidx' = [opidx EXCEPT ![p] = @ + 1]
  /\ UNCHANGED <<cfgv, pools, datasets, instance, hp, script, nbar, loopv, bcastv, err,
                 mutlog, io, before>>

\* ----------------------------------------------------- MpiDataset.delete
\* mpi.py:134  leading barrier
delete_call(p) ==
  /\ p \in Procs
  /\ \E o \in CurOps(p) :
       /\ o.op = "delete"
       /\ o.name \in DOMAIN dsh[p]
       /\ Issue(p, o)
       /\ nbar' = [nbar EXCEPT ![p] = @ + 1]
       /\ pc' = [pc EXCEPT ![p] = "de_b1"]
       /\ UNCHANGED <<cfgv, pools, datasets, instance, hp, dsh, opidx, loopv, bcastv,
                      err, mutlog, io>>

\* mpi.py:135-137  root deletes self.name through the owning pool; barrier
delete_b1(p) ==
  /\ p \in Procs
  /\ pc[p] = "de_b1"
  /\ BarrierOpen(p)
  /\ LET name == Self(p).name
         fail == mpi_is_root(p) /\ name \notin DOMAIN datasets IN
     /\ datasets' = IF mpi_is_root(p) /\ ~fail THEN Remove(datasets, name) ELSE datasets
     /\ mutlog' = IF mpi_is_root(p) THEN BagAdd(mutlog, MutRec(p, "del_dataset", name))
                  ELSE mutlog
     /\ pc' = [pc EXCEPT ![p] = IF fail THEN "raised" ELSE "de_b2"]
     /\ err' = [err EXCEPT ![p] = IF fail THEN "DatasetNotFound" ELSE @]
     /\ nbar' = [nbar EXCEPT ![p] = IF fail THEN @ ELSE @ + 1]
  /\ UNCHANGED <<cfgv, pools, instance, hp, dsh, script, opidx, loopv, bcastv, io, before>>

\* mpi.py:137  trailing barrier passed; the program drops the handle
delete_b2(p) ==
  /\ p \in Procs
  /\ pc[p] = "de_b2"
  /\ BarrierOpen(p)
  /\ dsh' = [dsh EXCEPT ![p] = Remove(@, Cur(p).name)]
  /\ pc' = [pc EXCEPT ![p] = "idle"]
  /\ opidx' = [opidx EXCEPT ![p] = @ + 1]
  /\ UNCHANGED <<cfgv, pools, datasets, instance, hp, script, nbar, loopv, bcastv, err,
                 mutlog, io, before>>

\* ----------------------------------------------- MpiDataset.create_chunk
\* mpi.py:118-120  root creates the chunk; everyone enters the barrier
create_chunk_call(p) ==
  /\ p \in Procs
  /\ \E o \in CurOps(p) :
       /\ o.op = "create_chunk"
       /\ o.name \in DOMAIN dsh[p]
       /\ Issue(p, o)
       /\ LET h == dsh[p][o.name]
              fail == mpi_is_root(p) /\ (h.name \notin DOMAIN datasets
                                         \/ o.idx \in DOMAIN datasets[h.name].chunks) IN
          /\ datasets' = IF mpi_is_root(p) /\ ~fail
                         THEN [datasets EXCEPT ![h.name].chunks =
                                 Put(@, o.idx, FillChunk(h.chunk_size, h.fillvalue))]
                         ELSE datasets
          /\ mutlog' = IF mpi_is_root(p) THEN BagAdd(mutlog, MutRec(p, "create_chunk", h.name))
                       ELSE mutlog
          /\ pc' = [pc EXCEPT ![p] = IF fail THEN "raised" ELSE "cc_b1"]
          /\ err' = [err EXCEPT ![p] = IF fail THEN "ChunkConflict" ELSE @]
          /\ nbar' = [nbar EXCEPT ![p] = IF fail THEN @ ELSE @ + 1]
       /\ UNCHANGED <<cfgv, pools, instance, hp, dsh, opidx, loopv, bcastv, io>>

\* mpi.py:120-121  barrier passed; get_chunk(idx) and return
create_chunk_b1(p) ==
  /\ p \in Procs
  /\ pc[p] = "cc_b1"
  /\ BarrierOpen(p)
  /\ pc' = [pc EXCEPT ![p] = "idle"]
  /\ opidx' = [opidx EXCEPT ![p] = @ + 1]
  /\ UNCHANGED <<cfgv, pools, datasets, instance, hp, dsh, script, nbar, loopv, bcastv,
                 err, mutlog, io, before>>

\* ------------------------------------------------------ MpiDataset.clear
\* mpi.py:128  start the loop over this rank's shard
clear_call(p) ==
  /\ p \in Procs
  /\ \E o \in CurOps(p) :
       /\ o.op = "clear"
       /\ o.name \in DOMAIN dsh[p]
       /\ Issue(p, o)
       /\ LET rest == StartLoop(p, dsh[p][o.name]) IN
          /\ it' = [it EXCEPT ![p] = rest]
          /\ pc' = [pc EXCEPT ![p] = AfterLoop(rest, "cl_loop", "cl_b")]
          /\ nbar' = [nbar EXCEPT ![p] = NbarAfter(rest, @)]
       /\ UNCHANGED <<cfgv, pools, datasets, instance, hp, dsh, opidx, tmp, out,
                      bcastv, err, mutlog, io>>

\* mpi.py:129-130  del_chunk of the next ordinal of the shard
clear_step(p) ==
  /\ p \in Procs
  /\ pc[p] = "cl_loop"
  /\ it[p] # <<>>
  /\ LET h == Self(p)
         idx == Head(it[p])
         fail == h.name \notin DOMAIN datasets IN
     /\ datasets' = IF fail THEN datasets
                    ELSE [datasets EXCEPT ![h.name].chunks = Remove(@, idx)]
     /\ io' = IF fail THEN io ELSE BagAdd(io, IoRec(p, h.name, idx, "del"))
     /\ pc' = [pc EXCEPT ![p] = IF fail THEN "raised"
                                ELSE AfterLoop(Tail(it[p]), "cl_loop", "cl_b")]
     /\ err' = [err EXCEPT ![p] = IF fail THEN "DatasetNotFound" ELSE @]
     /\ it' = [it EXCEPT ![p] = Tail(@)]
     /\ nbar' = IF fail THEN nbar ELSE [nbar EXCEPT ![p] = NbarAfter(Tail(it[p]), @)]
  /\ UNCHANGED <<cfgv, pools, instance, hp, dsh, script, opidx, tmp, out, bcastv,
                 mutlog, before>>

\* mpi.py:131  barrier passed: return
clear_return(p) ==
  /\ p \in Procs
  /\ pc[p] = "cl_b"
  /\ BarrierOpen(p)
  /\ pc' = [pc EXCEPT ![p] = "idle"]
  /\ opidx' = [opidx EXCEPT ![p] = @ + 1]
  /\ UNCHANGED <<cfgv, pools, datasets, instance, hp, dsh, script, nbar, loopv, bcastv,
                 err, mutlog, io, before>>

\* ------------------------------------------------------- MpiDataset.load
\* mpi.py:140-142  shape check, then start the loop over this rank's shard
load_call(p) ==
  /\ p \in Procs
  /\ \E o \in CurOps(p) :
       /\ o.op = "load"
       /\ o.name \in DOMAIN dsh[p]
       /\ Issue(p, o)
       /\ LET h == dsh[p][o.name]
              mismatch == ShapeMismatch(o.data, h) IN
          /\ pc' = [pc EXCEPT ![p] = IF mismatch THEN "raised"
                                     ELSE AfterLoop(StartLoop(p, h), "ld_loop", "ld_b")]
          /\ err' = [err EXCEPT ![p] = IF mismatch THEN "Data shape does not match" ELSE @]
          /\ it' = IF mismatch THEN it ELSE [it EXCEPT ![p] = StartLoop(p, h)]
          /\ nbar' = IF mismatch THEN nbar
                     ELSE [nbar EXCEPT ![p] = NbarAfter(StartLoop(p, h), @)]
       /\ UNCHANGED <<cfgv, pools, datasets, instance, hp, dsh, opidx, tmp, out,
                      bcastv, mutlog, io>>

\* mpi.py:143-147  set_chunk_data(idx, data[gslices], slices=lslices)
load_step(p) ==
  /\ p \in Procs
  /\ pc[p] = "ld_loop"
  /\ it[p] # <<>>
  /\ LET h == Self(p)
         idx == Head(it[p])
         lslices == LocalChunkBounds(h, idx)
         fail == h.name \notin DOMAIN datasets IN
     /\ datasets' = IF fail THEN datasets
                    ELSE [datasets EXCEPT ![h.name].chunks =
                            Put(@, idx, WriteRegion(ChunkData(datasets[h.name], idx), lslices,
                                                    LoadValues(Data(Cur(p).data), h, idx)))]
     /\ io' = IF fail THEN io ELSE BagAdd(io, IoRec(p, h.name, idx, "write"))
     /\ pc' = [pc EXCEPT ![p] = IF fail THEN "raised"
                                ELSE AfterLoop(Tail(it[p]), "ld_loop", "ld_b")]
     /\ err' = [err EXCEPT ![p] = IF fail THEN "DatasetNotFound" ELSE @]
     /\ it' = [it EXCEPT ![p] = Tail(@)]
     /\ nbar' = IF fail THEN nbar ELSE [nbar EXCEPT ![p] = NbarAfter(Tail(it[p]), @)]
  /\ UNCHANGED <<cfgv, pools, instance, hp, dsh, script, opidx, tmp, out, bcastv,
                 mutlog, before>>

\* mpi.py:148 (and 95 when called from create_dataset)  barrier passed: return
load_return(p) ==
  /\ p \in Procs
  /\ pc[p] = "ld_b"
  /\ BarrierOpen(p)
  /\ pc' = [pc EXCEPT ![p] = "idle"]
  /\ opidx' = [opidx EXCEPT ![p] = @ + 1]
  /\ UNCHANGED <<cfgv, pools, datasets, instance, hp, dsh, script, nbar, loopv, bcastv,
                 err, mutlog, io, before>>

\* ------------------------------------------------------ MpiDataset.apply
\* mpi.py:160  start the loop over this rank's shard
apply_call(p) ==
  /\ p \in Procs
  /\ \E o \in CurOps(p) :
       /\ o.op = "apply"
       /\ o.name \in DOMAIN dsh[p]
       /\ Issue(p, o)
       /\ LET rest == StartLoop(p, dsh[p][o.name]) IN
          /\ it' = [it EXCEPT ![p] = rest]
          /\ pc' = [pc EXCEPT ![p] = AfterLoop(rest, "ap_loop", "ap_b")]
          /\ nbar' = [nbar EXCEPT ![p] = NbarAfter(rest, @)]
       /\ UNCHANGED <<cfgv, pools, datasets, instance, hp, dsh, opidx, tmp, out,
                      bcastv, err, mutlog, io>>

\* mpi.py:161-162  data = func(self.get_chunk_data(idx))
apply_read(p) ==
  /\ p \in Procs
  /\ pc[p] = "ap_loop"
  /\ it[p] # <<>>
  /\ LET h == Self(p)
         idx == Head(it[p])
         fail == h.name \notin DOMAIN datasets IN
     /\ tmp' = IF fail THEN tmp
               ELSE [tmp EXCEPT ![p] = F(Cur(p).func, ChunkData(datasets[h.name], idx))]
     /\ io' = IF fail THEN io ELSE BagAdd(io, IoRec(p, h.name, idx, "read"))
     /\ pc' = [pc EXCEPT ![p] = IF fail THEN "raised" ELSE "ap_write"]
     /\ err' = [err EXCEPT ![p] = IF fail THEN "DatasetNotFound" ELSE @]
  /\ UNCHANGED <<cfgv, pools, datasets, instance, hp, dsh, script, opidx, nbar, it, out,
                 bcastv, mutlog, before>>

\* mpi.py:163  self.set_chunk_data(idx, data)
apply_write(p) ==
  /\ p \in Procs
  /\ pc[p] = "ap_write"
  /\ LET h == Self(p)
         idx == Head(it[p])
         fail == h.name \notin DOMAIN datasets IN
     /\ datasets' = IF fail THEN datasets
                    ELSE [datasets EXCEPT ![h.name].chunks = Put(@, idx, tmp[p])]
     /\ io' = IF fail THEN io ELSE BagAdd(io, IoRec(p, h.name, idx, "write"))
     /\ pc' = [pc EXCEPT ![p] = IF fail THEN "raised"
                                ELSE AfterLoop(Tail(it[p]), "ap_loop", "ap_b")]
     /\ err' = [err EXCEPT ![p] = IF fail THEN "DatasetNotFound" ELSE @]
     /\ it' = [it EXCEPT ![p] = Tail(@)]
     /\ tmp' = [tmp EXCEPT ![p] = <<>>]
     /\ nbar' = IF fail THEN nbar ELSE [nbar EXCEPT ![p] = NbarAfter(Tail(it[p]), @)]
  /\ UNCHANGED <<cfgv, pools, instance, hp, dsh, script, opidx, out, bcastv,
                 mutlog, before>>

\* mpi.py:164  barrier passed: return
apply_return(p) ==
  /\ p \in Procs
  /\ pc[p] = "ap_b"
  /\ BarrierOpen(p)
  /\ pc' = [pc EXCEPT ![p] = "idle"]
  /\ opidx' = [opidx EXCEPT ![p] = @ + 1]
  /\ UNCHANGED <<cfgv, pools, datasets, instance, hp, dsh, script, nbar, loopv, bcastv,
                 err, mutlog, io, before>>

\* ------------------------------------------------------ MpiDataset.clone
\* mpi.py:168-171  the dataset root creates for clone(output_name) of h
CloneDataset_nofill(h) == NewDataset(h.shape, h.dtype, h.chunk_size, DefaultFill)
CloneDataset(h) == NewDataset(h.shape, h.dtype, h.chunk_size, h.fillvalue)

\* mpi.py:167-175 on root: create the dataset, broadcast its handle (the
\* sender of a broadcast does not wait for the receivers), wrap and return it
\* mpi.py:172-174 on the others: out = None, wait in bcast
clone_call(p) ==
  /\ p \in Procs
  /\ \E o \in CurOps(p) :
       /\ o.op = "clone"
       /\ o.name \in DOMAIN dsh[p]
       /\ Issue(p, o)
       /\ LET h == dsh[p][o.name]
              fail == mpi_is_root(p) /\ o.out \in DOMAIN datasets
              new == CloneDataset(h) IN
          IF mpi_is_root(p)
          THEN /\ datasets' = IF fail THEN datasets ELSE Put(datasets, o.out, new)
               /\ mutlog' = BagAdd(mutlog, MutRec(p, "create_dataset", o.out))
               /\ bcastq' = IF fail THEN bcastq ELSE Append(bcastq, Handle(o.out, new))
               /\ nbc' = IF fail THEN nbc ELSE [nbc EXCEPT ![p] = @ + 1]
               /\ dsh' = IF fail THEN dsh ELSE [dsh EXCEPT ![p] = Put(@, o.out, Handle(o.out, new))]
               /\ pc' = [pc EXCEPT ![p] = IF fail THEN "raised" ELSE "idle"]
               /\ err' = [err EXCEPT ![p] = IF fail THEN "DatasetConflict" ELSE @]
               /\ opidx' = IF fail THEN opidx ELSE [opidx EXCEPT ![p] = @ + 1]
          ELSE /\ pc' = [pc EXCEPT ![p] = "cn_bcast"]
               /\ UNCHANGED <<datasets, mutlog, bcastq, nbc, dsh, err, opidx>>
       /\ UNCHANGED <<cfgv, pools, instance, hp, nbar, loopv, io>>

\* mpi.py:174-175 on a non-root process: receive root's value, wrap, return
clone_recv(p) ==
  /\ p \in Procs
  /\ pc[p] = "cn_bcast"
  /\ BcastReady(p)
  /\ dsh' = [dsh EXCEPT ![p] = Put(@, Cur(p).out, bcastq[nbc[p] + 1])]
  /\ nbc' = [nbc EXCEPT ![p] = @ + 1]
  /\ pc' = [pc EXCEPT ![p] = "idle"]
  /\ opidx' = [opidx EXCEPT ![p] = @ + 1]
  /\ UNCHANGED <<cfgv, pools, datasets, instance, hp, script, nbar, bcastq, loopv, err,
                 mutlog, io, before>>

\* -------------------------------------------------------- MpiDataset.map
\* mpi.py:151-152 on root: out = self.clone(output_name) (creates and
\* broadcasts), then start the loop; on the others: wait in clone's bcast
map_call(p) ==
  /\ p \in Procs
  /\ \E o \in CurOps(p) :
       /\ o.op = "map"
       /\ o.name \in DOMAIN dsh[p]
       /\ Issue(p, o)
       /\ LET h == dsh[p][o.name]
              fail == mpi_is_root(p) /\ o.out \in DOMAIN datasets
              new == CloneDataset(h) IN
          IF mpi_is_root(p)
          THEN /\ datasets' = IF fail THEN datasets ELSE Put(datasets, o.out, new)
               /\ mutlog' = BagAdd(mutlog, MutRec(p, "create_dataset", o.out))
               /\ bcastq' = IF fail THEN bcastq ELSE Append(bcastq, Handle(o.out, new))
               /\ nbc' = IF fail THEN nbc ELSE [nbc EXCEPT ![p] = @ + 1]
               /\ out' = IF fail THEN out ELSE [out EXCEPT ![p] = <<Handle(o.out, new)>>]
               /\ it' = IF fail THEN it ELSE [it EXCEPT ![p] = StartLoop(p, h)]
               /\ pc' = [pc EXCEPT ![p] = IF fail THEN "raised"
                                          ELSE AfterLoop(StartLoop(p, h), "mp_loop", "mp_b")]
               /\ nbar' = IF fail THEN nbar
                          ELSE [nbar EXCEPT ![p] = NbarAfter(StartLoop(p, h), @)]
               /\ err' = [err EXCEPT ![p] = IF fail THEN "DatasetConflict" ELSE @]
          ELSE /\ pc' = [pc EXCEPT ![p] = "mp_bcast"]
               /\ UNCHANGED <<datasets, mutlog, bcastq, nbc, out, it, err, nbar>>
       /\ UNCHANGED <<cfgv, pools, instance, hp, dsh, opidx, tmp, io>>

\* mpi.py:174-175, 151-152 on a non-root process: receive the handle, start
\* the loop
map_recv(p) ==
  /\ p \in Procs
  /\ pc[p] = "mp_bcast"
  /\ BcastReady(p)
  /\ out' = [out EXCEPT ![p] = <<bcastq[nbc[p] + 1]>>]
  /\ nbc' = [nbc EXCEPT ![p] = @ + 1]
  /\ it' = [it EXCEPT ![p] = StartLoop(p, Self(p))]
  /\ pc' = [pc EXCEPT ![p] = AfterLoop(StartLoop(p, Self(p)), "mp_loop", "mp_b")]
  /\ nbar' = [nbar EXCEPT ![p] = NbarAfter(StartLoop(p, Self(p)), @)]
  /\ UNCHANGED <<cfgv, pools, datasets, instance, hp, dsh, script, opidx, bcastq,
                 tmp, err, mutlog, io, before>>

\* mpi.py:153-154  data = func(self.get_chunk_data(idx))
map_read(p) ==
  /\ p \in Procs
  /\ pc[p] = "mp_loop"
  /\ it[p] # <<>>
  /\ LET h == Self(p)
         idx == Head(it[p])
         fail == h.name \notin DOMAIN datasets IN
     /\ tmp' = IF fail THEN tmp
               ELSE [tmp EXCEPT ![p] = F(Cur(p).func, ChunkData(datasets[h.name], idx))]
     /\ io' = IF fail THEN io ELSE BagAdd(io, IoRec(p, h.name, idx, "read"))
     /\ pc' = [pc EXCEPT ![p] = IF fail THEN "raised" ELSE "mp_write"]
     /\ err' = [err EXCEPT ![p] = IF fail THEN "DatasetNotFound" ELSE @]
  /\ UNCHANGED <<cfgv, pools, datasets, instance, hp, dsh, script, opidx, nbar, it, out,
                 bcastv, mutlog, before>>

\* mpi.py:155  out.set_chunk_data(idx, data)
map_write(p) ==
  /\ p \in Procs
  /\ pc[p] = "mp_write"
  /\ LET h == MapOut(p)
         idx == Head(it[p])
         fail == h.name \notin DOMAIN datasets IN
     /\ datasets' = IF fail THEN datasets
                    ELSE [datasets EXCEPT ![h.name].chunks = Put(@, idx, tmp[p])]
     /\ io' = IF fail THEN io ELSE BagAdd(io, IoRec(p, h.name, idx, "write"))
     /\ pc' = [pc EXCEPT ![p] = IF fail THEN "raised"
                                ELSE AfterLoop(Tail(it[p]), "mp_loop", "mp_b")]
     /\ err' = [err EXCEPT ![p] = IF fail THEN "DatasetNotFound" ELSE @]
     /\ it' = [it EXCEPT ![p] = Tail(@)]
     /\ tmp' = [tmp EXCEPT ![p] = <<>>]
     /\ nbar' = IF fail THEN nbar ELSE [nbar EXCEPT ![p] = NbarAfter(Tail(it[p]), @)]
  /\ UNCHANGED <<cfgv, pools, instance, hp, dsh, script, opidx, out, bcastv,
                 mutlog, before>>

\* mpi.py:156-157  barrier passed: return out
map_return(p) ==
  /\ p \in Procs
  /\ pc[p] = "mp_b"
  /\ BarrierOpen(p)
  /\ dsh' = [dsh EXCEPT ![p] = Put(@, Cur(p).out, out[p][1])]
  /\ out' = [out EXCEPT ![p] = <<>>]
  /\ pc' = [pc EXCEPT ![p] = "idle"]
  /\ opidx' = [opidx EXCEPT ![p] = @ + 1]
  /\ UNCHANGED <<cfgv, pools, datasets, instance, hp, script, nbar, it, tmp, bcastv, err,
                 mutlog, io, before>>

\* every rank a communicator of at most MaxProcs processes can have
AllRanks == 0 .. (MaxProcs - 1)

\* one step of process p
Step(p) ==
  \/ create_pool_call(p) \/ create_pool_b1(p) \/ create_pool_b2(p)
  \/ del_pool_call(p) \/ del_pool_b1(p) \/ del_pool_b2(p) \/ del_pool_b3(p)
  \/ create_dataset_call(p) \/ create_dataset_b1(p)
  \/ del_dataset_call(p) \/ del_dataset_b1(p) \/ del_dataset_b2(p)
  \/ delete_call(p) \/ delete_b1(p) \/ delete_b2(p)
  \/ create_chunk_call(p) \/ create_chunk_b1(p)
  \/ clear_call(p) \/ clear_step(p) \/ clear_return(p)
  \/ load_call(p) \/ load_step(p) \/ load_return(p)
  \/ apply_call(p) \/ apply_read(p) \/ apply_write(p) \/ apply_return(p)
  \/ clone_call(p) \/ clone_recv(p)
  \/ map_call(p) \/ map_recv(p) \/ map_read(p) \/ map_write(p)
  \/ map_return(p)

Next == \E p \in AllRanks : Step(p)

Spec == Init /\ [][Next]_vars

\* every process is an operating-system process of its own that keeps
\* running: a process that can take a step eventually takes one
FairSpec == Spec /\ \A p \in AllRanks : WF_vars(Step(p))

\* ---------------------------------------------------------------------
\* tests/test_pool.py:58-64 (test_dataset_creation) run by every process on
\* the MPI engine: has_dataset(n); create_dataset(n, data=...); has_dataset(n)
\* for a dataset n that does not exist.

\* test_pool.py:59,61  pool.has_dataset(fakeds): not a collective call, the
\* process asks the backend and goes on
has_dataset_call(p) ==
  /\ p \in Procs
  /\ \E o \in CurOps(p) :
       /\ o.op = "has_dataset"
       /\ Issue(p, o)
       /\ obs' = [obs EXCEPT ![p] = Append(@, has_dataset(p, o.name))]
  /\ opidx' = [opidx EXCEPT ![p] = @ + 1]
  /\ UNCHANGED <<mpi_size, bname, dsargs, part, got, pools, datasets, instance, hp,
                 dsh, pc, nbar, loopv, bcastv, err, mutlog, io>>

\* test_pool.py:59-61
TestProgram ==
  <<MkOp("has_dataset", "ds", NoData, "", "", NoIdx),
    MkOp("create_dataset", "ds", dsargs.shape, "", "", NoIdx),
    MkOp("has_dataset", "ds", NoData, "", "", NoIdx)>>

\* test_pool.py:25-32,59  setUp: the pool exists, the dataset does not
InitTest ==
  /\ mpi_size \in 1 .. MaxProcs
  /\ bname \in Backends
  /\ dsargs \in {[shape |-> s, chunks |-> DsChunks, dtype |-> DsDtype,
                   fillvalue |-> DsFill] : s \in 1 .. MaxShape}
  /\ pools = {POOL}
  /\ datasets = EmptyFn
  /\ part = [total |-> 0, shard |-> EmptyFn]
  /\ InitRun(TestProgram, Procs)

NextTest ==
  \E p \in AllRanks :
    \/ has_dataset_call(p)
    \/ create_dataset_call(p) \/ create_dataset_b1(p)
    \/ load_step(p) \/ load_return(p)

SpecTest == InitTest /\ [][NextTest]_vars

\* ---------------------------------------------------------------------
\* The fetches get_pool, get_dataset and get_chunk, called by one process
\* between two collective calls of the program for something that exists.

\* mpi.py:60-62, 97-99, 123-125  the number of barriers a fetch enters
QueryBarriers_one(p) == 1
QueryBarriers(p) == 0

\* a fetch of process p returns res
Fetch(p, call, res) ==
  /\ pc[p] = "idle"
  /\ got' = [rank |-> p, call |-> call, res |-> res]
  /\ nbar' = [nbar EXCEPT ![p] = @ + QueryBarriers(p)]
  /\ UNCHANGED <<mpi_size, bname, dsargs, part, obs, pools, datasets, instance, hp, dsh,
                 script, opidx, pc, loopv, bcastv, err, mutlog, io, before>>

\* mpi.py:60-62  MpiCluster.get_pool
get_pool_call(p) ==
  /\ p \in Procs
  /\ has_pool(p, POOL)
  /\ Fetch(p, "get_pool", get_pool(POOL, PoolKwargs))

\* mpi.py:97-99  MpiPool.get_dataset
get_dataset_call(p) ==
  /\ p \in Procs
  /\ POOL \in DOMAIN hp[p]
  /\ \E n \in DsNames :
       /\ has_dataset(p, n)
       /\ Fetch(p, "get_dataset", Handle(n, datasets[n]))

\* mpi.py:123-125  MpiDataset.get_chunk
get_chunk_call(p) ==
  /\ p \in Procs
  /\ "ds" \in DOMAIN dsh[p]
  /\ has_dataset(p, "ds")
  /\ \E idx \in {0, dsh[p]["ds"].total_chunks - 1} :
       Fetch(p, "get_chunk", [name |-> "ds", idx |-> idx])

NextQuery ==
  \/ Next
  \/ \E p \in AllRanks : get_pool_call(p) \/ get_dataset_call(p) \/ get_chunk_call(p)

\* the runs of a program whose dataset has two chunks, the last one partial
InitQuery == Init /\ dsargs.shape = DsChunks + 1

SpecQuery == InitQuery /\ [][NextQuery]_vars

\* ---------------------------------------------------------------------
\* The program run by a non-empty subset of the processes only (mpi.py:24-25,
\* 174: Barrier and bcast are collective over the whole communicator).
InitSubset ==
  /\ mpi_size \in 1 .. MaxProcs
  /\ bname \in Backends
  /\ dsargs = [shape |-> DsChunks + 1, chunks |-> DsChunks, dtype |-> DsDtype,
               fillvalue |-> DsFill]
  /\ pools \in {{}, {POOL}}
  /\ datasets \in IF pools = {} THEN {EmptyFn}
                  ELSE {EmptyFn,
                        "ds" :> NewDataset(dsargs.shape, dsargs.dtype, dsargs.chunks,
                                           dsargs.fillvalue)}
  /\ part = [total |-> 0, shard |-> EmptyFn]
  /\ \E callers \in (SUBSET Procs) \ {{}} : InitRun(<<>>, callers)

SpecSubset == InitSubset /\ [][Next]_vars

\* ---------------------------------------------------------------------
\* The partitioning rule on its own: every rank of a group of mpi_size
\* processes computes its shard of part.total chunks.
PartProcs == 4
PartChunks == 10

InitPart ==
  /\ mpi_size \in 1 .. PartProcs
  /\ bname = "hdf5"
  /\ dsargs = [shape |-> 1, chunks |-> DsChunks, dtype |-> DsDtype, fillvalue |-> DsFill]
  /\ pools = {}
  /\ datasets = EmptyFn
  /\ part \in {[total |-> t, shard |-> EmptyFn] : t \in 0 .. PartChunks}
  /\ InitProcesses

\* mpi.py:128,142,152,160  range(self.mpi_rank, self.total_chunks, self.mpi_size)
compute_shard(r) ==
  /\ r \in Procs
  /\ r \notin DOMAIN part.shard
  /\ part' = [part EXCEPT !.shard = Put(@, r, Shard(r, part.total, mpi_size))]
  /\ UNCHANGED <<mpi_size, bname, dsargs, pools, datasets, instance, hp, dsh, script,
                 opidx, pc, nbar, nbc, bcastq, it, tmp, out, err, mutlog, io, before,
                 obs, got>>

NextPart == \E r \in 0 .. (PartProcs - 1) : compute_shard(r)

SpecPart == InitPart /\ [][NextPart]_vars

\* ---------------------------------------------------------------------
\* Properties

\* process p has returned from call k / has entered call k
Returned(p, k) == opidx[p] > k
EnteredCall(p, k) == opidx[p] > k \/ (opidx[p] = k /\ pc[p] # "idle")
RunChunks == 0 .. (TotalChunks(dsargs.shape, dsargs.chunks) - 1)
Calls == 1 .. Len(script)

\* how often ordinal i occurs in the shards computed so far
Occurrences(i) ==
  Cardinality({<<r, j>> \in (DOMAIN part.shard) \X (1 .. PartChunks + 1) :
                 j <= Len(part.shard[r]) /\ part.shard[r][j] = i})

\* C1: for every chunk count T and group size P the shards range(r, T, P) of
\* the ranks hold only ordinals of [0,T), no ordinal occurs twice, and once
\* every rank has computed its shard every ordinal of [0,T) occurs exactly
\* once.
C1_ShardsPartition ==
  /\ \A r \in DOMAIN part.shard :
       \A j \in 1 .. Len(part.shard[r]) :
         part.shard[r][j] \in 0 .. (part.total - 1)
  /\ \A i \in 0 .. (part.total - 1) : Occurrences(i) <= 1
  /\ (DOMAIN part.shard = Procs) =>
       \A i \in 0 .. (part.total - 1) : Occurrences(i) = 1

\* T = 10, P = 3: the shards are {0,3,6,9}, {1,4,7}, {2,5,8}
C1_Witness ==
  /\ part.total = 10
  /\ mpi_size = 3
  /\ DOMAIN part.shard = Procs
  /\ part.shard[0] = <<0, 3, 6, 9>>
  /\ part.shard[1] = <<1, 4, 7>>
  /\ part.shard[2] = <<2, 5, 8>>

\* the backend create/delete calls logged for call k
MutRecs(k) == {r \in DOMAIN mutlog : r.op = k}
\* the collective calls that change metadata (map does through clone)
MetaOps == {"create_pool", "del_pool", "create_dataset", "del_dataset",
            "create_chunk", "clone", "delete", "map"}

\* C2: in every collective metadata call the backend create/delete is issued
\* by rank 0 only and once only; a call some process has returned from had it
\* issued exactly once; the bulk calls issue none.
C2_RootOnlyMutation ==
  \A k \in Calls :
    /\ \A r \in MutRecs(k) : r.rank = 0 /\ mutlog[r] = 1
    /\ Cardinality(MutRecs(k)) <= 1
    /\ (script[k].op \in MetaOps /\ \E p \in Procs : Returned(p, k)) =>
         Cardinality(MutRecs(k)) = 1
    /\ script[k].op \notin MetaOps => MutRecs(k) = {}

\* a non-root process has returned from a create_dataset that root issued
C2_Witness ==
  /\ mpi_size >= 2
  /\ \E k \in Calls :
       /\ script[k].op = "create_dataset"
       /\ Returned(1, k)
       /\ Cardinality(MutRecs(k)) = 1

\* calls after call k, issued by at least one process
Later(k) == {j \in Calls : j > k}
DeletesPool(o) == o.op = "del_pool"
CreatesPool(o) == o.op = "create_pool"
DeletesDs(o, name) ==
  o.op = "del_pool" \/ (o.op \in {"del_dataset", "delete"} /\ o.name = name)
CreatesDs(o, name) ==
  (o.op = "create_dataset" /\ o.name = name) \/ (o.op \in {"map", "clone"} /\ o.out = name)

BulkOps == {"load", "map", "apply", "clear"}
Loads(o) == o.op = "load" \/ (o.op = "create_dataset" /\ o.data # NoData)
IoCount(k, q, ds, i, kind) ==
  BagCount(io, [op |-> k, rank |-> q, ds |-> ds, ord |-> i, kind |-> kind])
ShardDone(k, q) ==
  LET o == script[k] IN
  \A i \in SeqToSet(Shard(q, Cardinality(RunChunks), mpi_size)) :
    /\ Loads(o) => IoCount(k, q, o.name, i, "write") >= 1
    /\ o.op = "apply" =>
         IoCount(k, q, o.name, i, "read") >= 1 /\ IoCount(k, q, o.name, i, "write") >= 1
    /\ o.op = "map" =>
         IoCount(k, q, o.name, i, "read") >= 1 /\ IoCount(k, q, o.out, i, "write") >= 1
    /\ o.op = "clear" => IoCount(k, q, o.name, i, "del") >= 1

\* C4: when a process has returned from a bulk call (load, map, apply,
\* clear, or the load inside create_dataset), every process has left the loop
\* of that call and has done every chunk read, write or delete of its shard.
C4_BulkBarrier ==
  \A k \in Calls :
    (script[k].op \in BulkOps \/ Loads(script[k])) =>
      \A p \in Procs :
        Returned(p, k) =>
          \A q \in Procs :
            /\ opidx[q] > k \/ (opidx[q] = k /\ pc[q] \in {"ld_b", "mp_b", "ap_b", "cl_b"})
            /\ ShardDone(k, q)

\* one of several processes has returned from a bulk call over more chunks
\* than processes while another has not yet
C4_Witness ==
  /\ mpi_size >= 2
  /\ Cardinality(RunChunks) > mpi_size
  /\ \E k \in Calls :
       /\ script[k].op \in BulkOps
       /\ \E p, q \in Procs : Returned(p, k) /\ ~Returned(q, k)

\* the pool/dataset creates and deletes
CreateOps == {"create_pool", "create_dataset", "clone", "map"}
DeleteOps == {"del_pool", "del_dataset", "delete"}

\* C5 as stated: every pool/dataset create and delete by root happens only
\* after all processes have entered the call and before any process leaves it.
C5_Original ==
  \A k \in Calls :
    script[k].op \in CreateOps \cup DeleteOps =>
      /\ MutRecs(k) # {} => \A p \in Procs : EnteredCall(p, k)
      /\ (\E p \in Procs : Returned(p, k)) => MutRecs(k) # {}

\* chunk i of dataset ds was accessed (kind) in call k exactly once, over
\* all ranks together
OnceIo(k, ds, i, kind) ==
  LET recs == {r \in DOMAIN io : r.op = k /\ r.ds = ds /\ r.ord = i /\ r.kind = kind} IN
  Cardinality(recs) = 1 /\ \A r \in recs : io[r] = 1
SomeReturned(k) == \E p \in Procs : Returned(p, k)
Latest(k) == k = Len(script)

\* C6: after apply(f) has returned, every chunk was read and written exactly
\* once in the call and holds f(its value before the call); with f the
\* identity every chunk is unchanged.
C6_ApplyExactlyOnce ==
  \A k \in Calls :
    (script[k].op = "apply" /\ SomeReturned(k)) =>
      LET o == script[k] IN
      /\ \A i \in RunChunks : OnceIo(k, o.name, i, "read") /\ OnceIo(k, o.name, i, "write")
      /\ Latest(k) =>
           \A i \in RunChunks :
             /\ ChunkData(datasets[o.name], i) = F(o.func, ChunkData(before[k][o.name], i))
             /\ o.func = "identity" =>
                  ChunkData(datasets[o.name], i) = ChunkData(before[k][o.name], i)

\* apply(incr) has returned on a dataset of more chunks than processes that
\* was loaded before
C6_Witness ==
  /\ mpi_size >= 2
  /\ Cardinality(RunChunks) > mpi_size
  /\ Len(script) = 2
  /\ script[1].op = "load" /\ script[2].op = "apply" /\ script[2].func = "incr"
  /\ \A p \in Procs : Returned(p, 2)

\* C7: after map(f, out) has returned, every chunk of the source has the
\* value it had before the call and every chunk of out is f of the source
\* chunk of the same ordinal.
C7_MapPure ==
  \A k \in Calls :
    (script[k].op = "map" /\ SomeReturned(k) /\ Latest(k)) =>
      LET o == script[k] IN
      \A i \in RunChunks :
        /\ ChunkData(datasets[o.name], i) = ChunkData(before[k][o.name], i)
        /\ ChunkData(datasets[o.out], i) = F(o.func, ChunkData(before[k][o.name], i))

\* map(incr, out) has returned on several processes over a loaded dataset
C7_Witness ==
  /\ mpi_size >= 2
  /\ Cardinality(RunChunks) >= 2
  /\ Len(script) = 2
  /\ script[1].op = "load" /\ script[2].op = "map" /\ script[2].func = "incr"
  /\ \A p \in Procs : Returned(p, 2)

\* element g (0-based) of the array reassembled from the chunks of d
Reassembled(d, g) == ChunkData(d, g \div d.chunk_size)[(g % d.chunk_size) + 1]

\* C8: after load(data) with data of the dataset's shape has returned, every
\* chunk was written exactly once in the call and the chunks reassemble to
\* data.
C8_LoadRoundTrip ==
  \A k \in Calls :
    (Loads(script[k]) /\ SomeReturned(k)) =>
      LET o == script[k] IN
      /\ \A i \in RunChunks : OnceIo(k, o.name, i, "write")
      /\ Latest(k) =>
           \A g \in 0 .. (dsargs.shape - 1) :
             Reassembled(datasets[o.name], g) = Data(o.data)[g + 1]

\* load has returned on several processes for an array whose last chunk is
\* partial and that has more chunks than processes
C8_Witness ==
  /\ mpi_size >= 2
  /\ Cardinality(RunChunks) > mpi_size
  /\ dsargs.shape % dsargs.chunks # 0
  /\ \E k \in Calls : script[k].op = "load" /\ Latest(k) /\ \A p \in Procs : Returned(p, k)

\* C9: load(data) with data of another shape raises the shape-mismatch error
\* on every process that calls it, no chunk is accessed in the call and the
\* stored datasets are what they were before it.
C9_LoadRejectsMismatch ==
  \A k \in Calls :
    (script[k].op = "load" /\ script[k].data # dsargs.shape) =>
      /\ \A p \in Procs :
           EnteredCall(p, k) =>
             /\ opidx[p] = k
             /\ pc[p] = "raised"
             /\ err[p] = "Data shape does not match"
      /\ \A r \in DOMAIN io : r.op # k
      /\ datasets = before[k]

\* every one of several processes has raised the error on a dataset that
\* held written chunks
C9_Witness ==
  /\ mpi_size >= 2
  /\ Len(script) = 2
  /\ script[2].op = "load" /\ script[2].data # dsargs.shape
  /\ \A p \in Procs : pc[p] = "raised" /\ opidx[p] = 2
  /\ "ds" \in DOMAIN datasets
  /\ DOMAIN datasets["ds"].chunks # {}

\* C10: clone(out) returns on every process the handle of the one dataset
\* root created, with the shape, dtype, chunk size, fill value and chunk
\* count of the source; on a non-root process it is the value root broadcast.
C10_CloneFidelity ==
  \A k \in Calls :
    script[k].op = "clone" =>
      \A p \in Procs :
        (opidx[p] = k + 1 /\ pc[p] = "idle") =>
          LET o == script[k]
              h == dsh[p][o.out]
              src == dsh[p][o.name] IN
          /\ o.out \in DOMAIN dsh[p]
          /\ h.name = o.out
          /\ h.shape = src.shape
          /\ h.dtype = src.dtype
          /\ h.chunk_size = src.chunk_size
          /\ h.fillvalue = src.fillvalue
          /\ h.total_chunks = src.total_chunks
          /\ Cardinality(MutRecs(k)) = 1
          /\ \A r \in MutRecs(k) : r.rank = 0 /\ r.name = o.out /\ mutlog[r] = 1
          /\ ~mpi_is_root(p) => (nbc[p] \in 1 .. Len(bcastq) /\ h = bcastq[nbc[p]])
          /\ Latest(k) => (o.out \in DOMAIN datasets /\ h = Handle(o.out, datasets[o.out]))

\* clone has returned on root and on another process
C10_Witness ==
  /\ mpi_size >= 2
  /\ \E k \in Calls :
       /\ script[k].op = "clone"
       /\ \A p \in Procs : opidx[p] = k + 1 /\ pc[p] = "idle"

\* ---------------------------------------------------------------------
\* C11: when every process runs has_dataset(n); create_dataset(n, data);
\* has_dataset(n) for a name n that did not exist, the first has_dataset
\* returns false and the second returns true on every process, under every
\* interleaving.
C11_FirstFalseSecondTrue ==
  \A p \in Procs :
    /\ Len(obs[p]) >= 1 => obs[p][1] = FALSE
    /\ Len(obs[p]) >= 2 => obs[p][2] = TRUE

\* ---------------------------------------------------------------------
\* C12: for every chunk count T >= 0 and group size P >= 1 the numbers of
\* chunks the round-robin rule assigns to any two ranks differ by at most
\* one.
C12_ShardsBalanced ==
  \A r1 \in DOMAIN part.shard :
    \A r2 \in DOMAIN part.shard :
      Len(part.shard[r1]) - Len(part.shard[r2]) <= 1

\* T = 9, P = 4: the shards have 3, 2, 2 and 2 chunks
C12_Witness ==
  /\ part.total = 9
  /\ mpi_size = 4
  /\ DOMAIN part.shard = Procs
  /\ Len(part.shard[0]) = 3
  /\ \A r \in 1 .. 3 : Len(part.shard[r]) = 2

\* ---------------------------------------------------------------------
\* the create_pool / del_pool calls among the first k calls of the program
PoolCalls(k) == {j \in 1 .. k : script[j].op \in {"create_pool", "del_pool"}}

\* C13: on a backend that requires reconnection (ceph), in create_pool and
\* del_pool a process replaces its cluster handle only after root's backend
\* create/delete of that call has completed, at most once per call, and no
\* process gets past the reconnect step of the call (fetches the pool or
\* returns) before every process has reconnected in it; on any other backend
\* no process's cluster handle is ever replaced.
C13_ReconnectAfterMutation ==
  /\ bname # "ceph" => \A p \in Procs : instance[p].gen = 0
  /\ bname = "ceph" =>
       /\ \A p \in Procs :
            instance[p].gen <= Cardinality(PoolCalls(Min(opidx[p], Len(script))))
       /\ \A k \in Calls :
            script[k].op \in {"create_pool", "del_pool"} =>
              \A p \in Procs :
                /\ instance[p].gen >= Cardinality(PoolCalls(k)) =>
                     /\ \E r \in MutRecs(k) : r.rank = 0 /\ r.call = script[k].op
                     /\ pc[0] # "raised" \/ opidx[0] > k
                /\ (Returned(p, k) \/ (opidx[p] = k /\ pc[p] = "raised"
                                       /\ instance[p].gen >= Cardinality(PoolCalls(k)))) =>
                     \A q \in Procs : instance[q].gen >= Cardinality(PoolCalls(k))

\* ceph, two processes: a create_pool and then a del_pool have returned on
\* every process, each process has reconnected twice
C13_Witness ==
  /\ bname = "ceph"
  /\ mpi_size = 2
  /\ Len(script) = 2
  /\ script[1].op = "create_pool"
  /\ script[2].op = "del_pool"
  /\ \A p \in Procs : Returned(p, 2) /\ instance[p].gen = 2

\* ---------------------------------------------------------------------
\* root's backend delete of call k
RootDeletes(k) ==
  {r \in MutRecs(k) :
     /\ r.rank = 0
     /\ r.call = (IF script[k].op = "del_pool" THEN "del_pool" ELSE "del_dataset")}

\* C14: in del_pool, del_dataset and MpiDataset.delete root issues the
\* backend delete only after every process has entered the call, hence has
\* returned from every earlier call of the program, and no process returns
\* from the call before root's delete has completed.
C14_DeleteAfterAllEntered ==
  \A k \in Calls :
    script[k].op \in DeleteOps =>
      /\ RootDeletes(k) # {} =>
           \A p \in Procs :
             /\ EnteredCall(p, k)
             /\ \A j \in 1 .. (k - 1) : Returned(p, j)
      /\ \A p \in Procs :
           Returned(p, k) =>
             /\ RootDeletes(k) # {}
             /\ opidx[0] > k \/ pc[0] \in {"dp_b2", "dp_b3", "dd_b2", "de_b2"}

\* two processes in MpiDataset.delete: root has deleted the dataset and waits
\* at the trailing barrier, the other process has not passed the leading one
C14_Witness ==
  /\ mpi_size = 2
  /\ opidx[0] \in Calls
  /\ script[opidx[0]].op = "delete"
  /\ pc[0] = "de_b2"
  /\ RootDeletes(opidx[0]) # {}
  /\ opidx[1] = opidx[0]
  /\ pc[1] = "de_b1"

\* ---------------------------------------------------------------------
\* C15: when all processes issue the same bulk operations (load, apply, map,
\* clear) on a dataset, a chunk is accessed (read, written or deleted) in a
\* bulk operation only by the rank equal to its flat ordinal modulo the group
\* size, so no two processes access the same chunk of the same dataset in
\* the same bulk operation.
C15_ChunkOwnedByOrdinalModP ==
  /\ \A r \in DOMAIN io :
       /\ r.op \in Calls
       /\ script[r.op].op \in BulkOps \cup {"create_dataset"}
       /\ r.rank = r.ord % mpi_size
  /\ \A r1 \in DOMAIN io :
       \A r2 \in DOMAIN io :
         (r1.op = r2.op /\ r1.ds = r2.ds /\ r1.ord = r2.ord) => r1.rank = r2.rank

\* two processes, more chunks than processes: in one apply both ranks have
\* read and written chunks, rank 0 two of them
C15_Witness ==
  /\ mpi_size = 2
  /\ \E k \in Calls :
       /\ script[k].op = "apply"
       /\ \A q \in Procs : Returned(q, k)
       /\ \E r \in DOMAIN io : r.op = k /\ r.rank = 1 /\ r.ord = 1 /\ r.kind = "write"
       /\ \E r \in DOMAIN io : r.op = k /\ r.rank = 0 /\ r.ord = 2 /\ r.kind = "write"

\* ---------------------------------------------------------------------
\* C16: get_pool, get_dataset and get_chunk enter no barrier and no
\* broadcast and issue no backend mutation: a call by one process is one
\* step of that process alone, taken whatever the other processes are doing,
\* and it leaves the existing pools, datasets and chunks, the barrier and
\* broadcast counts of every process and every other process's position
\* unchanged.
C16_FetchesAreLocal ==
  [][\A p \in AllRanks :
       (get_pool_call(p) \/ get_dataset_call(p) \/ get_chunk_call(p)) =>
         /\ UNCHANGED <<pools, datasets, mutlog, nbar, nbc, bcastq>>
         /\ UNCHANGED <<pc, opidx, err>>
         /\ got'.rank = p]_vars

\* rank 1 has fetched a chunk and is still before the delete call that root
\* has entered and waits in, at its leading barrier
C16_Witness ==
  /\ mpi_size = 2
  /\ got.rank = 1
  /\ got.call = "get_chunk"
  /\ opidx[1] = opidx[0]
  /\ pc[1] = "idle"
  /\ pc[0] = "de_b1"

\* ---------------------------------------------------------------------
\* some process of the group never calls the engine
StrictSubset == \E q \in Procs : pc[q] = "absent"

SomeRaised == \E q \in Procs : pc[q] = "raised"

\* two processes between the same two calls have executed the same number of
\* barriers and of broadcasts
SameSyncCount ==
  \A p \in Procs : \A q \in Procs :
    (pc[p] = "idle" /\ pc[q] = "idle" /\ opidx[p] = opidx[q]) =>
      (nbar[p] = nbar[q] /\ nbc[p] = nbc[q])

\* C18: when all processes issue the same finite sequence of collective
\* calls and no call fails, every call a process has entered eventually
\* returns on it; between calls root and non-root processes have executed the
\* same number of barriers and broadcasts, so none waits for a barrier or
\* broadcast another never reaches.
C18_EveryCallReturns ==
  /\ []SameSyncCount
  /\ \A p \in AllRanks : \A k \in 1 .. MaxOps :
       (p \in Procs /\ EnteredCall(p, k)) ~> ((p \in Procs /\ Returned(p, k)) \/ SomeRaised)

\* a program of MaxOps calls, among them a map (broadcast and barrier), has
\* returned on each of two processes without any failure
C18_Witness ==
  /\ mpi_size = 2
  /\ Len(script) = MaxOps
  /\ \E k \in Calls : script[k].op = "map"
  /\ \A p \in Procs : Returned(p, MaxOps) /\ pc[p] = "idle"
  /\ ~SomeRaised

\* ---------------------------------------------------------------------
\* root's backend call of metadata call k has failed: root has raised the
\* backend's error inside call k
RootFailed(k) ==
  /\ opidx[0] = k
  /\ pc[0] = "raised"
  /\ <<script[k].op, err[0]>> \in {<<"create_pool", "PoolConflict">>,
                                   <<"del_pool", "PoolNotFound">>,
                                   <<"create_dataset", "DatasetConflict">>,
                                   <<"del_dataset", "DatasetNotFound">>,
                                   <<"create_chunk", "ChunkConflict">>}

\* the barrier of the call that follows root's backend call
BarrierAfterMutation(op) ==
  CASE op = "create_pool" -> "cp_b1"
    [] op = "del_pool" -> "dp_b2"
    [] op = "create_dataset" -> "cd_b1"
    [] op = "del_dataset" -> "dd_b2"
    [] op = "create_chunk" -> "cc_b1"

\* C19: when root's backend call fails inside create_pool, del_pool,
\* create_dataset, del_dataset or create_chunk, the error is raised on root
\* only; root has left the call without entering the barrier that follows the
\* backend call, and no other process ever returns from the call or raises:
\* once it has entered that barrier it stays in it, one barrier ahead of
\* root.
C19_RootErrorBlocksOthers ==
  \A k \in Calls :
    RootFailed(k) =>
      \A q \in Procs \ {0} :
        /\ err[q] = ""
        /\ pc[q] # "raised"
        /\ ~Returned(q, k)
        /\ (opidx[q] = k /\ pc[q] = BarrierAfterMutation(script[k].op)) =>
             (nbar[q] = nbar[0] + 1 /\ ~BarrierOpen(q))
        /\ EnteredCall(q, k) =>
             pc[q] \in {BarrierAfterMutation(script[k].op), "dp_b1", "dd_b1"}

\* root has failed to delete a pool that does not exist; the other process
\* is in the barrier after the delete
C19_Witness ==
  /\ mpi_size = 2
  /\ \E k \in Calls : RootFailed(k) /\ script[k].op = "del_pool" /\ opidx[1] = k
  /\ pc[1] = "dp_b2"

\* ---------------------------------------------------------------------
\* C20: the pool fetch that ends create_pool is called on every process
\* with exactly the arguments that were passed to create_pool, with and
\* without the reconnect step; the stored cluster connection options never
\* reach get_pool.
C20_FetchUsesCallArguments ==
  \A k \in Calls :
    script[k].op = "create_pool" =>
      \A p \in Procs :
        (opidx[p] = k + 1 /\ pc[p] = "idle") =>
          /\ script[k].name \in DOMAIN hp[p]
          /\ hp[p][script[k].name] = get_pool(script[k].name, PoolKwargs)

====
